---- MODULE Spec2Model ----
(***************************************************************************)
(* Model of the leak-search proxy: the Flask handler (src/app.py), the     *)
(* FastAPI handler (src/main.py) and the Netlify function                  *)
(* (src/netlify/functions/query.py).                                       *)
(*                                                                         *)
(* Text is a TLA+ string.  JSON values are tagged records:                 *)
(*   [t |-> "null"], [t |-> "int", n |-> 5], [t |-> "str", s |-> "abc"],   *)
(*   [t |-> "bool", b |-> TRUE], [t |-> "float", micro |-> 3000] (0.003),  *)
(*   [t |-> "list", items |-> <<v1, v2>>],                                 *)
(*   [t |-> "dict", pairs |-> <<[k |-> "key", v |-> value], ...>>]         *)
(* A dict keeps its pairs in insertion order, as a Python dict does.       *)
(* The one-character ellipsis U+2026 of the source is written "~".         *)
(* Texts of the model hold no "~", no quote and no hyphen of their own.    *)
(***************************************************************************)
EXTENDS Integers, Sequences, FiniteSets, TLC

VARIABLES variant, envToken, started, upstream, request, sent, response,
          resp_json, summary

vars == <<variant, envToken, started, upstream, request, sent, response,
          resp_json, summary>>

(***************************************************************************)
(* Text helpers (Python str operations).  Values used more than once are   *)
(* passed as operator arguments, so that each is computed once.            *)
(***************************************************************************)
Ellipsis == "~"

Char(s, i) == SubSeq(s, i, i)

IsSpace(c) == c \in {" ", "\n", "\t"}

Min(a, b) == IF a < b THEN a ELSE b

\* s[:n]
Prefix(s, n) == IF Len(s) <= n THEN s ELSE SubSeq(s, 1, n)

\* needle in haystack
Contains(haystack, needle) ==
    \E i \in 1..(Len(haystack) - Len(needle) + 1) :
        SubSeq(haystack, i, i + Len(needle) - 1) = needle

Twice(h, rest) == h \o h \o rest

RECURSIVE Rep(_, _)
\* c * n
Rep(c, n) ==
    IF n <= 0 THEN ""
    ELSE Twice(Rep(c, n \div 2), IF n % 2 = 0 THEN "" ELSE c)

RECURSIVE FirstInk(_, _)
\* index of the first non-whitespace character at or after i, Len(s)+1 if none
FirstInk(s, i) ==
    IF i > Len(s) THEN i
    ELSE IF IsSpace(Char(s, i)) THEN FirstInk(s, i + 1) ELSE i

RECURSIVE LastInk(_, _)
\* index of the last non-whitespace character at or before i, 0 if none
LastInk(s, i) ==
    IF i < 1 THEN 0
    ELSE IF IsSpace(Char(s, i)) THEN LastInk(s, i - 1) ELSE i

Between(s, lo, hi) == IF lo > hi THEN "" ELSE SubSeq(s, lo, hi)

\* s.strip()
Strip(s) == Between(s, FirstInk(s, 1), LastInk(s, Len(s)))

\* s.lstrip()
LStrip(s) == Between(s, FirstInk(s, 1), Len(s))

\* the least element of S, or d when S is empty
LeastOr(S, d) == IF S = {} THEN d ELSE CHOOSE j \in S : \A k \in S : j <= k

\* index of the first whitespace character at or after i, Len(s)+1 if none
NextSpace(s, i) == LeastOr({j \in i..Len(s) : IsSpace(Char(s, j))}, Len(s) + 1)

\* index of the first newline at or after i, Len(s)+1 if none
NextNewline(s, i) == LeastOr({j \in i..Len(s) : Char(s, j) = "\n"}, Len(s) + 1)

RECURSIVE SplitFrom(_, _)
\* the word that begins at b and ends before e, and the words after it
SplitWord(s, b, e) == <<SubSeq(s, b, e - 1)>> \o SplitFrom(s, e)

SplitAt(s, b) == IF b > Len(s) THEN <<>> ELSE SplitWord(s, b, NextSpace(s, b))

SplitFrom(s, i) == SplitAt(s, FirstInk(s, i))

\* s.split(): the whitespace-separated words of s
Split(s) == SplitFrom(s, 1)

RECURSIVE Join(_, _)
\* sep.join(parts)
Join(sep, parts) ==
    IF Len(parts) = 0 THEN ""
    ELSE IF Len(parts) = 1 THEN parts[1]
    ELSE parts[1] \o sep \o Join(sep, Tail(parts))

RECURSIVE SplitLinesFrom(_, _)
SplitLine(s, i, e) ==
    IF e > Len(s) THEN <<SubSeq(s, i, Len(s))>>
    ELSE <<SubSeq(s, i, e - 1)>> \o SplitLinesFrom(s, e + 1)

SplitLinesFrom(s, i) == SplitLine(s, i, NextNewline(s, i))

\* s.split("\n")
Lines(s) == SplitLinesFrom(s, 1)

RECURSIVE SumLen(_)
\* sum(map(len, chunks))
SumLen(chunks) ==
    IF Len(chunks) = 0 THEN 0 ELSE Len(chunks[1]) + SumLen(Tail(chunks))

RECURSIVE Flatten(_)
Flatten(seqs) ==
    IF Len(seqs) = 0 THEN <<>> ELSE seqs[1] \o Flatten(Tail(seqs))

\* str.isdigit()
IsDigit(s) ==
    /\ Len(s) > 0
    /\ \A i \in 1..Len(s) :
           Char(s, i) \in {"0", "1", "2", "3", "4", "5", "6", "7", "8", "9"}

(***************************************************************************)
(* JSON values and the Python operations the handlers apply to them        *)
(***************************************************************************)
JNull == [t |-> "null"]

JInt(n) == [t |-> "int", n |-> n]

JStr(s) == [t |-> "str", s |-> s]

JBool(b) == [t |-> "bool", b |-> b]

\* a float, kept in millionths: round(x, 6) is exact in this unit
JFloat(micro) == [t |-> "float", micro |-> micro]

\* a response body that is not JSON (a framework's error page)
PlainBody(s) == [t |-> "text", s |-> s]

JList(items) == [t |-> "list", items |-> items]

JDict(pairs) == [t |-> "dict", pairs |-> pairs]

KV(k, v) == [k |-> k, v |-> v]

\* isinstance(v, dict)
IsDict(v) == v.t = "dict"

\* k in d, for a dict d
HasKey(d, k) == \E i \in 1..Len(d.pairs) : d.pairs[i].k = k

\* d.get(k, default)
GetOr(d, k, default) ==
    IF HasKey(d, k)
    THEN d.pairs[CHOOSE i \in 1..Len(d.pairs) : d.pairs[i].k = k].v
    ELSE default

\* d.get(k): the value under k, None when k is absent
Get(d, k) == GetOr(d, k, JNull)

\* bool(v)
Truthy(v) ==
    CASE v.t = "null" -> FALSE
      [] v.t = "int"  -> v.n # 0
      [] v.t = "bool" -> v.b
      [] v.t = "float" -> v.micro # 0
      [] v.t = "str"  -> v.s # ""
      [] v.t = "list" -> Len(v.items) > 0
      [] v.t = "dict" -> Len(v.pairs) > 0

\* a or b
Or(a, b) == IF Truthy(a) THEN a ELSE b

RECURSIVE Digits(_, _)
\* n as exactly w decimal digits
Digits(n, w) ==
    IF w = 0 THEN "" ELSE Digits(n \div 10, w - 1) \o ToString(n % 10)

RECURSIVE DropZeros(_)
\* the fraction digits without trailing zeros, one digit at least
DropZeros(d) ==
    IF Len(d) > 1 /\ Char(d, Len(d)) = "0"
    THEN DropZeros(SubSeq(d, 1, Len(d) - 1)) ELSE d

\* repr of a non-negative float given in millionths: 3000 is "0.003"
FloatText(micro) ==
    ToString(micro \div 1000000) \o "." \o DropZeros(Digits(micro % 1000000, 6))

RECURSIVE PyRepr(_)
\* repr(v)
PyRepr(v) ==
    CASE v.t = "null" -> "None"
      [] v.t = "int"  -> ToString(v.n)
      [] v.t = "bool" -> IF v.b THEN "True" ELSE "False"
      [] v.t = "float" -> FloatText(v.micro)
      [] v.t = "str"  -> "'" \o v.s \o "'"
      [] v.t = "list" ->
            "[" \o Join(", ", [i \in 1..Len(v.items) |-> PyRepr(v.items[i])]) \o "]"
      [] v.t = "dict" ->
            "{" \o Join(", ", [i \in 1..Len(v.pairs) |->
                        "'" \o v.pairs[i].k \o "': " \o PyRepr(v.pairs[i].v)]) \o "}"

\* str(v)
PyStr(v) == IF v.t = "str" THEN v.s ELSE PyRepr(v)

RECURSIVE JsonText(_)
\* the JSON text of a value: what the upstream puts on the wire (resp.text)
JsonText(v) ==
    CASE v.t = "null" -> "null"
      [] v.t = "int"  -> ToString(v.n)
      [] v.t = "bool" -> IF v.b THEN "true" ELSE "false"
      [] v.t = "float" -> FloatText(v.micro)
      [] v.t = "str"  -> "\"" \o v.s \o "\""
      [] v.t = "list" ->
            "[" \o Join(", ", [i \in 1..Len(v.items) |-> JsonText(v.items[i])]) \o "]"
      [] v.t = "dict" ->
            "{" \o Join(", ", [i \in 1..Len(v.pairs) |->
                        "\"" \o v.pairs[i].k \o "\": " \o JsonText(v.pairs[i].v)]) \o "}"

RECURSIVE Mentions(_, _)
\* needle occurs in a string or a key of the body v
Mentions(v, needle) ==
    CASE v.t = "null" -> FALSE
      [] v.t = "int"  -> FALSE
      [] v.t = "bool" -> FALSE
      [] v.t = "float" -> FALSE
      [] v.t = "str"  -> Contains(v.s, needle)
      [] v.t = "text" -> Contains(v.s, needle)
      [] v.t = "list" -> \E i \in 1..Len(v.items) : Mentions(v.items[i], needle)
      [] v.t = "dict" -> \E i \in 1..Len(v.pairs) :
                            \/ Contains(v.pairs[i].k, needle)
                            \/ Mentions(v.pairs[i].v, needle)

\* the outcome of a call: a value, or an exception
Return(v) == [ok |-> TRUE, value |-> v]

Raise(exc, msg) == [ok |-> FALSE, exc |-> exc, msg |-> msg]

(***************************************************************************)
(* textwrap.shorten(text, width, placeholder): TextWrapper._wrap_chunks    *)
(* with max_lines = 1 on the whitespace-collapsed text                     *)
(***************************************************************************)
ShortenWidth == 2000

DefaultPlaceholder == " [...]"

\* the chunks of the whitespace-collapsed text: word, " ", word, ...
Chunks(words) ==
    [i \in 1..(IF Len(words) = 0 THEN 0 ELSE 2 * Len(words) - 1) |->
        IF i % 2 = 1 THEN words[(i + 1) \div 2] ELSE " "]

RECURSIVE FitFrom(_, _, _, _)
\* how many leading chunks fit the line, n of them taken filling cur_len
FitFrom(chunks, n, cur_len, width) ==
    IF n < Len(chunks) /\ cur_len + Len(chunks[n + 1]) <= width
    THEN FitFrom(chunks, n + 1, cur_len + Len(chunks[n + 1]), width)
    ELSE n

\* the line: the chunks that fit, and a next chunk longer than the whole
\* line broken to fill it (_handle_long_word)
CurLine(chunks, fit, width) ==
    IF fit < Len(chunks) /\ Len(chunks[fit + 1]) > width
    THEN Append(SubSeq(chunks, 1, fit),
                Prefix(chunks[fit + 1], width - SumLen(SubSeq(chunks, 1, fit))))
    ELSE SubSeq(chunks, 1, fit)

\* one trailing whitespace chunk is dropped
DropSpace(cur_line) ==
    IF Len(cur_line) > 0 /\ Strip(cur_line[Len(cur_line)]) = ""
    THEN SubSeq(cur_line, 1, Len(cur_line) - 1)
    ELSE cur_line

RECURSIVE Placehold(_, _, _)
\* chunks are dropped from the end until the line ends in a word and the
\* placeholder fits after it
Placehold(cur_line, width, placeholder) ==
    IF Len(cur_line) = 0 THEN LStrip(placeholder)
    ELSE IF /\ Strip(cur_line[Len(cur_line)]) # ""
            /\ SumLen(cur_line) + Len(placeholder) <= width
    THEN Join("", cur_line) \o placeholder
    ELSE Placehold(SubSeq(cur_line, 1, Len(cur_line) - 1), width, placeholder)

WrapOne(chunks, width, placeholder) ==
    IF SumLen(chunks) <= width THEN Join("", chunks)
    ELSE Placehold(DropSpace(CurLine(chunks, FitFrom(chunks, 0, 0, width), width)),
                   width, placeholder)

shorten(text, width, placeholder) ==
    WrapOne(Chunks(Split(text)), width, placeholder)

(***************************************************************************)
(* summarize (src/main.py and src/netlify/functions/query.py)              *)
(***************************************************************************)
MaxShown == 3

ValueCap == 200

\* if len(s) > 200: s = s[:200] + ellipsis
CapText(s) == IF Len(s) > ValueCap THEN Prefix(s, ValueCap) \o Ellipsis ELSE s

\* the lines of the i-th shown entry
EntryLines(i, entry) ==
    <<" Entry " \o ToString(i) \o ":">> \o
    (IF IsDict(entry)
     THEN [j \in 1..Len(entry.pairs) |->
              "  " \o entry.pairs[j].k \o ": " \o CapText(PyStr(entry.pairs[j].v))]
     ELSE <<"  " \o PyStr(entry)>>)

\* the elements len(data) counts and data[:3] yields: items, or characters
Elements(data) ==
    IF data.t = "str"
    THEN [i \in 1..Len(data.s) |-> JStr(Char(data.s, i))]
    ELSE data.items

\* for i, entry in enumerate(data[:3], 1)
ShownLines(elems) ==
    Flatten([i \in 1..Min(Len(elems), MaxShown) |-> EntryLines(i, elems[i])])

\* MoreLine with the test written >= : a line "...and 0 more entries" at 3
MoreLine_AtThree(n) ==
    IF n >= MaxShown
    THEN <<"...and " \o ToString(n - MaxShown) \o " more entries">>
    ELSE <<>>

\* if len(data) > 3: the line that counts the entries not shown
MoreLine(n) ==
    IF n > MaxShown
    THEN <<"...and " \o ToString(n - MaxShown) \o " more entries">>
    ELSE <<>>

\* the count line, the shown entries, the rest, and the blank line
DataLines(elems) ==
    <<"Entries: " \o ToString(Len(elems))>>
    \o ShownLines(elems) \o MoreLine(Len(elems)) \o <<"">>

\* if info_leak: the summary line
InfoLines(info_leak) ==
    IF Truthy(info_leak) THEN <<"Summary: " \o PyStr(info_leak)>> ELSE <<>>

\* the lines of one database whose info is a dict
DbData(dbname, info_leak, data) ==
    IF data.t \notin {"list", "str", "dict"}
    THEN Raise("TypeError", "object has no len()")
    ELSE IF data.t = "dict"
    THEN Raise("TypeError", "unhashable type: 'slice'")
    ELSE Return(<<"== " \o dbname \o " ==">> \o InfoLines(info_leak)
                \o DataLines(Elements(data)))

\* one pass of the loop over resp_json["List"].items()
DbLines(dbname, dbinfo) ==
    IF ~IsDict(dbinfo)
    THEN Raise("AttributeError", "object has no attribute 'get'")
    ELSE DbData(dbname,
                Or(Or(Get(dbinfo, "InfoLeak"), Get(dbinfo, "info")), JStr("")),
                Or(Get(dbinfo, "Data"), JList(<<>>)))

\* a, then b: the first exception ends the loop
Then(a, b) ==
    IF ~a.ok THEN a ELSE IF ~b.ok THEN b ELSE Return(a.value \o b.value)

RECURSIVE ListLines(_)
\* the loop over the databases, in the mapping's order
ListLines(dbs) ==
    IF Len(dbs) = 0 THEN Return(<<>>)
    ELSE Then(DbLines(dbs[1].k, dbs[1].v), ListLines(Tail(dbs)))

\* "\n".join(parts).strip()
JoinStrip(parts) ==
    IF parts.ok THEN Return(Strip(Join("\n", parts.value))) ELSE parts

\* textwrap.shorten(str(resp_json), width=2000, placeholder=ellipsis)
Fallback(v) == Return(shorten(PyStr(v), ShortenWidth, Ellipsis))

\* the body shared by both copies of summarize; they differ in the error label
summarize_body(resp_json_, label) ==
    IF ~IsDict(resp_json_)
    THEN Fallback(resp_json_)
    ELSE IF HasKey(resp_json_, "Error code")
    THEN Return(label \o ": " \o PyStr(Get(resp_json_, "Error code")) \o ". "
                \o PyStr(Or(Or(Get(resp_json_, "Description"),
                               Get(resp_json_, "message")), JStr(""))))
    ELSE IF HasKey(resp_json_, "List") /\ IsDict(Get(resp_json_, "List"))
    THEN JoinStrip(ListLines(Get(resp_json_, "List").pairs))
    ELSE Fallback(resp_json_)

\* src/main.py
summarize_main(resp_json_) == summarize_body(resp_json_, "API error")

\* src/netlify/functions/query.py
summarize_netlify(resp_json_) == summarize_body(resp_json_, "API Error")

(***************************************************************************)
(* Configuration, inbound events, upstream outcomes, responses             *)
(***************************************************************************)
API_URL == "https://leakosintapi.com/"

\* the fallback of os.environ.get('API_TOKEN', ...) in src/app.py
FlaskDefaultToken == "5844553333:b063s6yM"

MaxLimit == 10000

DefaultLimit == 100

TextCap == 1000

\* the environment variable that holds the secret: unset, or set to a text
Unset == [set |-> FALSE]

EnvValue(s) == [set |-> TRUE, val |-> s]

\* os.getenv(name): None when unset
Getenv(env) == IF env.set THEN JStr(env.val) ELSE JNull

\* os.environ.get(name, default)
GetenvOr(env, default) == IF env.set THEN JStr(env.val) ELSE JStr(default)

\* a field that a request body may leave out
Absent == [t |-> "absent"]

Field(k, choice) == IF choice.t = "absent" THEN <<>> ELSE <<KV(k, choice)>>

\* an inbound HTTP call: its method, and its body as parsed JSON when it is JSON
Event(method, json, body) == [method |-> method, json |-> json, body |-> body]

\* what the one upstream call ends in
Transport(desc) == [kind |-> "transport", desc |-> desc]

HttpJson(status, v) ==
    [kind |-> "http", status |-> status, json |-> TRUE, value |-> v,
     text |-> JsonText(v)]

HttpText(status, s) ==
    [kind |-> "http", status |-> status, json |-> FALSE, value |-> JNull,
     text |-> s]

\* resp.ok / not raise_for_status(): the status is below 400
resp_ok(up) == up.status < 400

\* str(HTTPError) as raise_for_status() builds it
HTTPErrorText(up) ==
    ToString(up.status)
    \o (IF up.status < 500 THEN " Client Error" ELSE " Server Error")
    \o " for url: " \o API_URL

\* str(JSONDecodeError) of resp.json() on a body that is not JSON
JsonErrorText == "Expecting value: line 1 column 1 (char 0)"

Resp(status, body) == [status |-> status, body |-> body]

\* a JSON body with an error field and, optionally, more fields
ErrorBody(msg, more) == JDict(<<KV("error", JStr(msg))>> \o more)

\* the result of a handler: the upstream calls it made and its response
Done(calls, resp) == [calls |-> calls, response |-> resp]

\* a handler that answers without calling the upstream
Answer(resp) == Done(<<>>, resp)

Call(payload, up) == [payload |-> payload, outcome |-> up]

\* the framework's answer to an exception no handler code catches
Unhandled500 == Resp(500, PlainBody("Internal Server Error"))

RECURSIVE ParseNat(_)
ParseNat(s) ==
    IF Len(s) = 0 THEN 0
    ELSE 10 * ParseNat(SubSeq(s, 1, Len(s) - 1))
         + (CHOOSE d \in 0..9 : ToString(d) = Char(s, Len(s)))

PyIntDigits(d) ==
    IF IsDigit(d) THEN Return(ParseNat(d))
    ELSE Raise("ValueError", "invalid literal for int() with base 10")

Negate(r) == IF r.ok THEN Return(0 - r.value) ELSE r

PyIntText(w) ==
    IF Len(w) > 0 /\ Char(w, 1) = "-"
    THEN Negate(PyIntDigits(SubSeq(w, 2, Len(w))))
    ELSE PyIntDigits(w)

\* int(v)
PyInt(v) ==
    CASE v.t = "int"  -> Return(v.n)
      [] v.t = "bool" -> Return(IF v.b THEN 1 ELSE 0)
      [] v.t = "str"  -> PyIntText(Strip(v.s))
      [] OTHER -> Raise("TypeError", "int() argument must be a string or a number")

\* k in v
PyIn(k, v) ==
    CASE v.t = "dict" -> Return(HasKey(v, k))
      [] v.t = "str"  -> Return(Contains(v.s, k))
      [] v.t = "list" ->
            Return(\E i \in 1..Len(v.items) :
                       v.items[i].t = "str" /\ v.items[i].s = k)
      [] OTHER -> Raise("TypeError", "argument is not iterable")

\* d[k] = v on a dict: replaces in place, or appends
SetKey(d, k, v) ==
    IF HasKey(d, k)
    THEN JDict([i \in 1..Len(d.pairs) |->
                   IF d.pairs[i].k = k THEN KV(k, v) ELSE d.pairs[i]])
    ELSE JDict(Append(d.pairs, KV(k, v)))

(***************************************************************************)
(* src/app.py: calculate_cost and the Flask handler search                 *)
(***************************************************************************)
RECURSIVE IsqrtIn(_, _, _)
\* the largest a in lo..hi with a * a <= x
IsqrtIn(x, lo, hi) ==
    IF lo >= hi THEN lo
    ELSE IF ((lo + hi + 1) \div 2) * ((lo + hi + 1) \div 2) <= x
    THEN IsqrtIn(x, (lo + hi + 1) \div 2, hi)
    ELSE IsqrtIn(x, lo, (lo + hi + 1) \div 2 - 1)

\* the largest b in 0..199 with (200 a + b)^2 <= 40000 a^2 + rest
Frac200(a, rest) ==
    CHOOSE b \in 0..199 :
        /\ 400 * a * b + b * b <= rest
        /\ b < 199 => 400 * a * (b + 1) + (b + 1) * (b + 1) > rest

\* f = 200 a + b rounds up when (f + 1/2)^2 <= 40000 a^2 + rest
Round200(a, b, rest) ==
    IF 400 * a * b + b * b + 200 * a + b + 1 <= rest
    THEN 200 * a + b + 1 ELSE 200 * a + b

Sqrt200From(a, rest) == Round200(a, Frac200(a, rest), rest)

Sqrt200Of(x, a) == Sqrt200From(a, 40000 * (x - a * a))

\* round(200 * sqrt(x)) for 0 <= x < 1000 * 1000, in 32-bit arithmetic
Sqrt200(x) == Sqrt200Of(x, IsqrtIn(x, 0, 1000))

\* words of at least 4 characters that are not all digits
SignificantWords(words) ==
    Cardinality({i \in 1..Len(words) : Len(words[i]) >= 4 /\ ~IsDigit(words[i])})

Complexity(word_count) ==
    CASE word_count = 1 -> 1
      [] word_count = 2 -> 5
      [] word_count = 3 -> 16
      [] OTHER -> 40

\* (5 + math.sqrt(x)) / 5000 in millionths, rounded: 1000 + 200 sqrt(x)
CostOf(x) ==
    IF x < 0 THEN Raise("ValueError", "math domain error")
    ELSE Return(1000 + Sqrt200(x))

\* calculate_cost(limit, query), with round(cost, 6) applied
calculate_cost(limit, query_) ==
    IF query_.t # "str"
    THEN Raise("AttributeError", "object has no attribute 'split'")
    ELSE CostOf(limit * Complexity(SignificantWords(Split(query_.s))))

\* API_TOKEN of src/app.py
app_API_TOKEN(env) == GetenvOr(env, FlaskDefaultToken)

\* result["cost"] = ...; result["balance_impact"] = ...
AddCost(result, cost) ==
    SetKey(SetKey(result, "cost", JFloat(cost)),
           "balance_impact", JStr("$" \o FloatText(cost) \o " will be deducted"))

\* the try block of search once response.json() has returned result
search_result(result, has_list, cost) ==
    IF ~has_list.ok THEN Resp(500, ErrorBody(has_list.msg, <<>>))
    ELSE IF ~has_list.value THEN Resp(200, result)
    ELSE IF ~IsDict(result)
    THEN Resp(500, ErrorBody("object does not support item assignment", <<>>))
    ELSE Resp(200, AddCost(result, cost))

\* the try block of search: the upstream call and the response built from it
search_try(up, cost) ==
    IF up.kind = "transport" THEN Resp(500, ErrorBody(up.desc, <<>>))
    ELSE IF ~up.json THEN Resp(500, ErrorBody(JsonErrorText, <<>>))
    ELSE search_result(up.value, PyIn("List", up.value), cost)

search_payload(env, query_, limit, lang) ==
    JDict(<<KV("token", app_API_TOKEN(env)), KV("request", query_),
            KV("limit", JInt(limit)), KV("lang", lang)>>)

\* search from calculate_cost on
search_call(env, up, query_, limit, lang, cost) ==
    IF ~cost.ok THEN Answer(Unhandled500)
    ELSE Done(<<Call(search_payload(env, query_, limit, lang), up)>>,
              search_try(up, cost.value))

\* search from "if not query" on
search_checked(env, up, query_, limit, lang) ==
    IF ~Truthy(query_)
    THEN Answer(Resp(400, ErrorBody("Query parameter is required", <<>>)))
    ELSE search_call(env, up, query_, limit, lang, calculate_cost(limit, query_))

\* search once the fields are read: int() may have raised
search_fields(env, up, query_, lim, lang) ==
    IF ~lim.ok THEN Answer(Unhandled500)
    ELSE search_checked(env, up, query_, Min(lim.value, MaxLimit), lang)

search(event, env, up) ==
    IF ~event.json THEN Answer(Resp(400, PlainBody("Bad Request")))
    ELSE IF ~IsDict(event.body) THEN Answer(Unhandled500)
    ELSE search_fields(env, up,
                       Get(event.body, "query"),
                       PyInt(GetOr(event.body, "limit", JInt(DefaultLimit))),
                       GetOr(event.body, "lang", JStr("en")))

(***************************************************************************)
(* src/main.py: the FastAPI handler query                                  *)
(***************************************************************************)
\* API_TOKEN of src/main.py
main_API_TOKEN(env) == Getenv(env)

\* the module-level check: importing main raises when the token is not set
main_import_ok(env) == Truthy(main_API_TOKEN(env))

\* the answer to a body that does not validate as QueryPayload
ValidationError422 ==
    Resp(422, JDict(<<KV("detail",
                         JList(<<JDict(<<KV("msg", JStr("validation error"))>>)>>))>>))

\* HTTPException(status_code, detail)
HTTPException(status_code, detail) ==
    Resp(status_code, JDict(<<KV("detail", JStr(detail))>>))

\* a str field of QueryPayload holds a string
StrOk(v) == v.t = "str"

\* an int field of QueryPayload holds an int, or a string that reads as one
IntOk(v) == v.t \in {"int", "str"} /\ PyInt(v).ok

\* class QueryPayload(BaseModel): query is required, the rest have defaults
QueryPayloadOk(event) ==
    /\ event.json
    /\ IsDict(event.body)
    /\ StrOk(Get(event.body, "query"))
    /\ IntOk(GetOr(event.body, "limit", JInt(DefaultLimit)))
    /\ StrOk(GetOr(event.body, "lang", JStr("en")))
    /\ StrOk(GetOr(event.body, "type", JStr("json")))

\* the payload call_leak_api posts for a validated QueryPayload
call_leak_api_payload(env, data) ==
    JDict(<<KV("token", main_API_TOKEN(env)),
            KV("request", Get(data, "query")),
            KV("limit", JInt(PyInt(GetOr(data, "limit", JInt(DefaultLimit))).value)),
            KV("lang", GetOr(data, "lang", JStr("en"))),
            KV("type", GetOr(data, "type", JStr("json")))>>)

\* call_leak_api after the post: raise_for_status() and resp.json().
\* jsonErrorIsRequestException: whether the installed requests makes its
\* JSONDecodeError a RequestException (2.27 and later) or a bare ValueError.
call_leak_api(up, jsonErrorIsRequestException) ==
    IF up.kind = "transport"
    THEN Raise("RequestException", up.desc)
    ELSE IF ~resp_ok(up)
    THEN Raise("HTTPError", HTTPErrorText(up))
    ELSE IF ~up.json
    THEN Raise(IF jsonErrorIsRequestException
               THEN "RequestException" ELSE "ValueError", JsonErrorText)
    ELSE Return(up.value)

\* return {"raw": raw, "summary": summary}, unless summarize raised
query_summary(raw, s) ==
    IF ~s.ok THEN Unhandled500
    ELSE Resp(200, JDict(<<KV("raw", raw), KV("summary", JStr(s.value))>>))

\* query after call_leak_api returned or raised
query_result(raw) ==
    IF raw.ok THEN query_summary(raw.value, summarize_main(raw.value))
    ELSE CASE raw.exc = "HTTPError" ->
                HTTPException(502, "Upstream HTTP error: " \o raw.msg)
           [] raw.exc = "RequestException" ->
                HTTPException(502, "Upstream request failed: " \o raw.msg)
           [] OTHER -> Unhandled500

query(event, env, up, jsonErrorIsRequestException) ==
    IF ~QueryPayloadOk(event) THEN Answer(ValidationError422)
    ELSE Done(<<Call(call_leak_api_payload(env, event.body), up)>>,
              query_result(call_leak_api(up, jsonErrorIsRequestException)))

(***************************************************************************)
(* src/netlify/functions/query.py: the Netlify function handler            *)
(***************************************************************************)
\* make_response(status_code, body_obj, origin): the status and the JSON body
make_response(status_code, body_obj) == Resp(status_code, body_obj)

\* truncated with the slice forgotten: the whole text, then the ellipsis
truncated_Unsliced(text) ==
    IF Len(text) <= TextCap THEN text ELSE text \o Ellipsis

\* truncated = text if len(text) <= 1000 else text[:1000] + ellipsis
truncated(text) ==
    IF Len(text) <= TextCap THEN text ELSE Prefix(text, TextCap) \o Ellipsis

\* the catch-all except of handler
InternalError(msg) ==
    make_response(500, ErrorBody("Internal server error",
                                 <<KV("detail", JStr(msg))>>))

\* return {"raw": resp_json, "summary": summary}, unless summarize raised
handler_summary(raw, s) ==
    IF ~s.ok THEN InternalError(s.msg)
    ELSE make_response(200, JDict(<<KV("raw", raw), KV("summary", JStr(s.value))>>))

\* the part of handler after the upstream call returned or raised
handler_upstream(up) ==
    IF up.kind = "transport"
    THEN make_response(502, ErrorBody("Upstream request failed",
                                      <<KV("detail", JStr(up.desc))>>))
    ELSE IF ~resp_ok(up)
    THEN make_response(502, ErrorBody("Upstream returned non-200",
                                      <<KV("status_code", JInt(up.status)),
                                        KV("text", JStr(truncated(up.text)))>>))
    ELSE IF ~up.json
    THEN make_response(200,
            JDict(<<KV("raw", JStr(up.text)),
                    KV("summary",
                       JStr(shorten(up.text, ShortenWidth, DefaultPlaceholder)))>>))
    ELSE handler_summary(up.value, summarize_netlify(up.value))

handler_payload(token, query_, limit, lang, out_type) ==
    JDict(<<KV("token", token), KV("request", JStr(PyStr(query_))),
            KV("limit", JInt(limit)), KV("lang", lang), KV("type", out_type)>>)

\* handler from "if not query" on
handler_checked(token, up, query_, limit, lang, out_type) ==
    IF ~Truthy(query_)
    THEN Answer(make_response(400,
                  ErrorBody("Missing 'query' field in request body.", <<>>)))
    ELSE IF ~limit.ok THEN Answer(InternalError(limit.msg))
    ELSE Done(<<Call(handler_payload(token, query_, limit.value, lang, out_type), up)>>,
              handler_upstream(up))

\* handler from json.loads on, with the token read from the environment
handler_body(event, token, up) ==
    IF ~Truthy(token)
    THEN Answer(make_response(500,
                  ErrorBody("Server misconfiguration: missing LEAK_API_TOKEN", <<>>)))
    ELSE IF ~event.json
    THEN Answer(make_response(400,
                  ErrorBody("Invalid JSON. Expected application/json with 'query' field.",
                            <<>>)))
    ELSE IF ~IsDict(event.body)
    THEN Answer(InternalError("object has no attribute 'get'"))
    ELSE handler_checked(token, up,
                         Or(Get(event.body, "query"), Get(event.body, "request")),
                         PyInt(GetOr(event.body, "limit", JInt(DefaultLimit))),
                         GetOr(event.body, "lang", JStr("en")),
                         GetOr(event.body, "type", JStr("json")))

handler(event, env, up) ==
    IF event.method = "OPTIONS"
    THEN Answer(make_response(200, JDict(<<KV("ok", JBool(TRUE))>>)))
    ELSE handler_body(event, Getenv(env), up)

(***************************************************************************)
(* Bounds and the inputs drawn from them                                   *)
(***************************************************************************)
\* how far past the 1000 and 2000 character caps the long upstream bodies go
OverCap == 1

\* how far past the limit of 10000 the largest requested limit goes
OverLimit == 1

\* the most entries a database of a summarize input holds
MaxEntries == 4

\* the most databases a summarize input holds
MaxDbs == 2

\* the value the deployment's secret is set to, when it is set
TOKEN == "SECRET"

Variants == {"flask", "fastapi", "netlify"}

EnvChoices == {Unset, EnvValue(""), EnvValue(TOKEN)}

\* a text of n characters that is not JSON
LongText(n) == "<" \o Rep("x", n - 1)

Row(i) == JDict(<<KV("a", JStr(ToString(i)))>>)

Db(info, n) ==
    JDict(info \o <<KV("Data", JList([i \in 1..n |-> Row(i)]))>>)

ListOf(dbs) == JDict(<<KV("List", JDict(dbs))>>)

\* JSON bodies the upstream may answer with
JsonChoices ==
    { JList(<<JInt(1)>>),
      JStr("List of hits"),
      JNull,
      JDict(<<KV("Error code", JInt(401)),
              KV("Description", JStr("invalid token " \o TOKEN))>>),
      JDict(<<KV("Error code", JStr("ERR")), KV("message", JStr("bad"))>>),
      ListOf(<<KV("DB1", Db(<<KV("InfoLeak", JStr("desc"))>>, MaxShown + 1))>>),
      ListOf(<<KV("DB1", Db(<<>>, 0)),
               KV("DB2", JDict(<<KV("info", JStr("old")),
                                 KV("Data", JList(<<JStr("row")>>))>>))>>),
      ListOf(<<KV("DB1", JStr("x"))>>),
      ListOf(<<KV("DB1", JDict(<<KV("Data", JInt(5))>>))>>),
      ListOf(<<KV("DB1", JDict(<<KV("Data", Row(1))>>))>>),
      ListOf(<<KV("DB1", JDict(<<KV("Data", JStr("abcd"))>>))>>),
      JDict(<<KV("List", JList(<<JInt(1)>>))>>),
      JDict(<<KV("status", JStr("ok"))>>) }

\* bodies that are not JSON
TextChoices ==
    { "<html>Bad Gateway</html>",
      "denied for " \o TOKEN,
      LongText(TextCap),
      LongText(TextCap + OverCap),
      LongText(ShortenWidth + OverCap) \o " tail" }

\* requests' description of a transport failure: the cause and the URL
TransportChoices ==
    { Transport("Read timed out. (read timeout=30)"),
      Transport("Max retries exceeded with url: / (Connection refused)") }

StatusChoices == {200, 500}

UpstreamChoices ==
    TransportChoices
    \cup {HttpJson(st, v) : st \in StatusChoices, v \in JsonChoices}
    \cup {HttpText(st, s) : st \in StatusChoices, s \in TextChoices}

QueryChoices == {Absent, JStr(""), JStr("password"), JStr("john smith 1990")}

LimitChoices ==
    {Absent, JInt(MaxLimit), JInt(MaxLimit + OverLimit), JInt(-1), JStr("abc")}

AliasChoices == {Absent, JStr("alias")}

\* lang and type, left out together or given together
LocaleChoices == {<<Absent, Absent>>, <<JStr("ru"), JStr("html")>>}

RequestBody(q, l, a, loc) ==
    JDict(Field("query", q) \o Field("limit", l) \o Field("request", a)
          \o Field("lang", loc[1]) \o Field("type", loc[2]))

\* inbound calls: POSTs with a JSON object, a JSON list, a body that is not
\* JSON, and a CORS preflight
EventChoices ==
    {Event("POST", TRUE, RequestBody(q, l, a, loc)) :
        q \in QueryChoices, l \in LimitChoices, a \in AliasChoices,
        loc \in LocaleChoices}
    \cup {Event("POST", TRUE, JList(<<JStr("password")>>)),
          Event("POST", FALSE, JNull),
          Event("OPTIONS", FALSE, JNull)}

(***************************************************************************)
(* The proxy as a state machine                                            *)
(***************************************************************************)
NoEvent == Event("none", FALSE, JNull)

NoResponse == Resp(0, JNull)

NoSummary == [by |-> "none"]

\* The deployment, its environment and the upstream's behaviour are drawn
\* once: the handlers keep nothing between calls, so every exchange a
\* changing upstream could produce is an exchange of one of these runs.
Init ==
    /\ variant \in Variants
    /\ envToken \in EnvChoices
    /\ started = "no"
    /\ upstream \in UpstreamChoices
    /\ request = NoEvent
    /\ sent = <<>>
    /\ response = NoResponse
    /\ resp_json = JNull
    /\ summary = NoSummary

\* the process loads its module: src/main.py refuses to load without a token
Startup ==
    /\ started = "no"
    /\ started' = IF variant = "fastapi" /\ ~main_import_ok(envToken)
                  THEN "crashed" ELSE "up"
    /\ UNCHANGED <<variant, envToken, upstream, request, sent, response,
                   resp_json, summary>>

Serve(event, result) ==
    /\ request' = event
    /\ sent' = result.calls
    /\ response' = result.response
    /\ UNCHANGED <<variant, envToken, started, upstream, resp_json, summary>>

\* POST /search of src/app.py
FlaskSearch ==
    /\ variant = "flask"
    /\ started = "up"
    /\ \E event \in EventChoices :
          /\ event.method = "POST"
          /\ Serve(event, search(event, envToken, upstream))

\* POST /query of src/main.py
FastApiQuery ==
    /\ variant = "fastapi"
    /\ started = "up"
    /\ \E event \in EventChoices, jsonErrorIsRequestException \in BOOLEAN :
          /\ event.method = "POST"
          /\ Serve(event, query(event, envToken, upstream,
                                jsonErrorIsRequestException))

\* the Netlify function, called with any method
NetlifyHandler ==
    /\ variant = "netlify"
    /\ started = "up"
    /\ \E event \in EventChoices :
          Serve(event, handler(event, envToken, upstream))

Next == Startup \/ FlaskSearch \/ FastApiQuery \/ NetlifyHandler

Spec == Init /\ [][Next]_vars

(***************************************************************************)
(* summarize on its own: Init draws the input, the actions apply it        *)
(***************************************************************************)
InfoChoices == {<<>>, <<KV("InfoLeak", JStr("desc"))>>}

\* the entries of a database: records, or plain strings
DataChoices ==
    {JList([i \in 1..n |-> Row(i)]) : n \in 0..MaxEntries}
    \cup {JList([i \in 1..n |-> JStr("row" \o ToString(i))]) : n \in 1..MaxEntries}

DbChoices == {JDict(info \o <<KV("Data", d)>>) : info \in InfoChoices, d \in DataChoices}

DbName(i) == "DB" \o ToString(i)

\* List mappings of up to MaxDbs databases, each {InfoLeak, Data}
ListChoices ==
    UNION {{ListOf([i \in 1..k |-> KV(DbName(i), f[i])]) : f \in [1..k -> DbChoices]} :
             k \in 0..MaxDbs}

SummarizeInputs == ListChoices \cup JsonChoices

InitSummarize ==
    /\ variant = "netlify"
    /\ envToken = Unset
    /\ started = "no"
    /\ upstream = Transport("none")
    /\ request = NoEvent
    /\ sent = <<>>
    /\ response = NoResponse
    /\ resp_json \in SummarizeInputs
    /\ summary = NoSummary

\* summarize of src/main.py
SummarizeMain ==
    /\ summary' = [by |-> "main", result |-> summarize_main(resp_json)]
    /\ UNCHANGED <<variant, envToken, started, upstream, request, sent, response,
                   resp_json>>

\* summarize of src/netlify/functions/query.py
SummarizeNetlify ==
    /\ summary' = [by |-> "netlify", result |-> summarize_netlify(resp_json)]
    /\ UNCHANGED <<variant, envToken, started, upstream, request, sent, response,
                   resp_json>>

NextSummarize == SummarizeMain \/ SummarizeNetlify

SpecSummarize == InitSummarize /\ [][NextSummarize]_vars

(***************************************************************************)
(* What the claims speak of                                                *)
(***************************************************************************)
\* a handler has answered an inbound call
Responded == response.status # 0

\* the secret is set in the environment, to a text that is not empty
TokenConfigured == envToken.set /\ envToken.val # ""

\* the last inbound call was a POST whose body is a JSON object
PostedObject == request.method = "POST" /\ request.json /\ IsDict(request.body)

\* its query is missing, or is the empty string
QueryMissingOrEmpty ==
    \/ ~HasKey(request.body, "query")
    \/ Get(request.body, "query").t = "null"
    \/ Get(request.body, "query").t = "str" /\ Get(request.body, "query").s = ""

\* its query is a string that is not empty
QueryGiven ==
    /\ HasKey(request.body, "query")
    /\ Get(request.body, "query").t = "str"
    /\ Get(request.body, "query").s # ""

\* its limit is an integer above 10000
LimitAboveMax ==
    /\ HasKey(request.body, "limit")
    /\ Get(request.body, "limit").t = "int"
    /\ Get(request.body, "limit").n > MaxLimit

\* the body is a JSON object with an error field
HasErrorField(body) == IsDict(body) /\ HasKey(body, "error")

\* the body is {raw, summary}
IsRawSummary(body) == IsDict(body) /\ HasKey(body, "raw") /\ HasKey(body, "summary")

\* the handler called the upstream, once
Called == Len(sent) = 1

\* the upstream call ended in a transport failure
TransportFailed == Called /\ sent[1].outcome.kind = "transport"

\* the upstream answered, with a status that is not a success
UpstreamRefused ==
    Called /\ sent[1].outcome.kind = "http" /\ ~resp_ok(sent[1].outcome)

\* the upstream answered with a success status
UpstreamAccepted ==
    Called /\ sent[1].outcome.kind = "http" /\ resp_ok(sent[1].outcome)

(***************************************************************************)
(* C1                                                                      *)
(***************************************************************************)
\* C1: whatever the outcome of an inbound call, the configured secret token
\* occurs nowhere in the body of the response.
C1_TokenNeverInResponse ==
    (Responded /\ TokenConfigured) => ~Mentions(response.body, envToken.val)

(***************************************************************************)
(* C2                                                                      *)
(***************************************************************************)
\* C2: an inbound request whose query is missing or empty is answered with
\* status 400 and a body with an error field, and no upstream call is made,
\* whatever its other fields are.
C2_MissingQueryIs400 ==
    (Responded /\ TokenConfigured /\ PostedObject /\ QueryMissingOrEmpty)
        => /\ response.status = 400
           /\ HasErrorField(response.body)
           /\ sent = <<>>

(***************************************************************************)
(* C3                                                                      *)
(***************************************************************************)
\* C3: a request with a limit above 10000 is not rejected and its upstream
\* payload carries the limit 10000; no upstream payload carries a limit
\* above 10000.
C3_LimitClampedTo10000 ==
    /\ (Responded /\ TokenConfigured /\ PostedObject /\ QueryGiven /\ LimitAboveMax)
          => Called /\ Get(sent[1].payload, "limit").n = MaxLimit
    /\ \A i \in 1..Len(sent) : Get(sent[i].payload, "limit").n <= MaxLimit

(***************************************************************************)
(* C4                                                                      *)
(***************************************************************************)
\* C4: when the upstream call ends in a transport failure or a non-success
\* status, the inbound call is answered with status 502.
C4_UpstreamFailureIs502 ==
    (TransportFailed \/ UpstreamRefused) => response.status = 502

(***************************************************************************)
(* C5                                                                      *)
(***************************************************************************)
\* C5: when the upstream answers a success status with a body that is not
\* JSON, the inbound call is answered with status 200 and a body that holds
\* the raw text and a summary.
C5_NonJsonBodyIs200 ==
    (UpstreamAccepted /\ ~sent[1].outcome.json)
        => /\ response.status = 200
           /\ IsRawSummary(response.body)
           /\ Get(response.body, "raw").t = "str"
           /\ Get(response.body, "raw").s = sent[1].outcome.text

(***************************************************************************)
(* C6                                                                      *)
(***************************************************************************)
\* C6: without a configured secret token no inbound query leads to an
\* upstream call, and each is answered with status 500 unless the process
\* failed at startup; a token sent upstream is the configured one.
C6_NoTokenNoUpstreamCall ==
    /\ ~TokenConfigured
          => /\ sent = <<>>
             /\ (Responded /\ request.method = "POST") => response.status = 500
    /\ \A i \in 1..Len(sent) :
          /\ TokenConfigured
          /\ Get(sent[i].payload, "token").t = "str"
          /\ Get(sent[i].payload, "token").s = envToken.val

(***************************************************************************)
(* C7                                                                      *)
(***************************************************************************)
\* C7: every response whose status is not 200 has a JSON object body with
\* an error field.
C7_ErrorResponsesHaveErrorField ==
    (Responded /\ response.status # 200) => HasErrorField(response.body)

(***************************************************************************)
(* C8                                                                      *)
(***************************************************************************)
\* the text field of the response, a copy of the upstream's body
TextField == Get(response.body, "text").s

\* the response carries such a copy
HasTextField ==
    /\ IsDict(response.body)
    /\ HasKey(response.body, "text")
    /\ Get(response.body, "text").t = "str"

\* C8 as stated: the copy of a non-success upstream body in the 502 response
\* is at most 1000 characters long.
C8_TextAtMost1000 ==
    (UpstreamRefused /\ response.status = 502 /\ HasTextField)
        => Len(TextField) <= TextCap

\* C8 as amended: the Netlify handler answers a non-success upstream status
\* with 502 and a text field that is the whole body when the body has at
\* most 1000 characters, and its first 1000 characters followed by a
\* one-character ellipsis otherwise: at most 1001 characters.
C8_TextAtMost1000PlusEllipsis ==
    (variant = "netlify" /\ UpstreamRefused)
        => /\ response.status = 502
           /\ HasTextField
           /\ Len(TextField) <= TextCap + 1
           /\ Len(sent[1].outcome.text) <= TextCap
                 => TextField = sent[1].outcome.text
           /\ Len(sent[1].outcome.text) > TextCap
                 => TextField = SubSeq(sent[1].outcome.text, 1, TextCap) \o Ellipsis

\* a non-success upstream body longer than 1000 characters was copied
C8_LongBodyCopied ==
    /\ variant = "netlify"
    /\ UpstreamRefused
    /\ Len(sent[1].outcome.text) > TextCap
    /\ HasTextField
    /\ Len(TextField) = TextCap + 1

(***************************************************************************)
(* C9                                                                      *)
(***************************************************************************)
StartsWith(line, p) == Len(line) >= Len(p) /\ SubSeq(line, 1, Len(p)) = p

\* a header, a count line, an entry line or a line counting the rest
IsMarker(line) ==
    \/ StartsWith(line, "== ")
    \/ StartsWith(line, "Entries: ")
    \/ StartsWith(line, " Entry ")
    \/ StartsWith(line, "...and ")

\* the List of resp_json maps every database name to {info, Data: list}
WellFormedList ==
    /\ IsDict(resp_json)
    /\ ~HasKey(resp_json, "Error code")
    /\ HasKey(resp_json, "List")
    /\ IsDict(Get(resp_json, "List"))
    /\ \A i \in 1..Len(Get(resp_json, "List").pairs) :
          /\ IsDict(Get(resp_json, "List").pairs[i].v)
          /\ HasKey(Get(resp_json, "List").pairs[i].v, "Data")
          /\ Get(Get(resp_json, "List").pairs[i].v, "Data").t = "list"

\* the number of Data entries of a database
EntryCount(db) == Len(Get(db.v, "Data").items)

\* the marker lines the claim asks of a database with n entries
MarkersOf(name, n) ==
    <<"== " \o name \o " ==", "Entries: " \o ToString(n)>>
    \o [i \in 1..(IF n < 3 THEN n ELSE 3) |-> " Entry " \o ToString(i) \o ":"]
    \o (IF n > 3 THEN <<"...and " \o ToString(n - 3) \o " more entries">> ELSE <<>>)

\* C9: for a List that maps database names to {info, Data}, the output of
\* summarize holds, for every database with N entries and in the mapping's
\* order: the header, one line "Entries: N", the lines "Entry 1:" up to
\* "Entry min(N,3):", and a line "...and N-3 more entries" exactly if N > 3.
C9_ListSummaryLines ==
    (summary.by # "none" /\ WellFormedList)
        => /\ summary.result.ok
           /\ SelectSeq(Lines(summary.result.value), IsMarker)
                = Flatten([i \in 1..Len(Get(resp_json, "List").pairs) |->
                      MarkersOf(Get(resp_json, "List").pairs[i].k,
                                EntryCount(Get(resp_json, "List").pairs[i]))])

\* summarize ran on two databases, one with more than 3 entries and one with
\* one or two
C9_TwoDatabasesSummarized ==
    /\ summary.by = "main"
    /\ WellFormedList
    /\ Len(Get(resp_json, "List").pairs) = 2
    /\ EntryCount(Get(resp_json, "List").pairs[1]) > 3
    /\ EntryCount(Get(resp_json, "List").pairs[2]) \in {1, 2}
    /\ summary.result.ok

(***************************************************************************)
(* C10                                                                     *)
(***************************************************************************)
\* C10: summarize returns a text for every JSON value, so a success status
\* with a JSON body is always answered with status 200 and {raw, summary}.
C10_JsonBodyIs200 ==
    (variant \in {"fastapi", "netlify"} /\ UpstreamAccepted /\ sent[1].outcome.json)
        => response.status = 200 /\ IsRawSummary(response.body)

====
